---- MODULE Spec2Model ----
(***************************************************************************)
(* Gallery view controller of src/script.js: the in-memory list of image   *)
(* records, the current selection index, the DOM state the handlers write  *)
(* (detail pane, large image, thumbnails, prev/next and upload controls)   *)
(* and the remote requests that are in flight between two awaits.          *)
(*                                                                         *)
(* Indices are 0-based as in the source; At(s, i) reads s[i] of JavaScript.*)
(* A handler runs to its next await in one step; what follows the await is *)
(* a separate step taken when the response arrives.  `await fetch(...)`    *)
(* followed by `await response.json()` is one step: nothing of the program *)
(* state is read or written between the two.                               *)
(***************************************************************************)
EXTENDS Integers, Sequences, FiniteSets

VARIABLES
    images,            \* let images (line 18)
    currentIndex,      \* let currentIndex (line 19)
    detailHidden,      \* elements.imageDetail has class 'hidden'
    largeSrc,          \* elements.largeImage.src
    thumbs,            \* the .thumbnail-container img nodes of the reel
    prevDisabled,      \* elements.prevBtn.disabled
    nextDisabled,      \* elements.nextBtn.disabled
    fetchPending,      \* GET /api/images requests awaiting their response
    delPending,        \* DELETE requests in flight, per public_id sent
    uploadPending,     \* POST /api/upload requests in flight
    uploadDisabled,    \* #upload-btn .disabled
    uploadLabel,       \* #upload-btn .textContent
    fileSelected,      \* #file-input has a file
    out                \* what the handler that ran last showed the user

vars == <<images, currentIndex, detailHidden, largeSrc, thumbs, prevDisabled,
          nextDisabled, fetchPending, delPending, uploadPending,
          uploadDisabled, uploadLabel, fileSelected, out>>

view == <<images, currentIndex, detailHidden, largeSrc, thumbs, prevDisabled,
          nextDisabled>>

----------------------------------------------------------------------------
(* Bounds *)

NumIds == 2
MaxLen == 2
MaxFetch == 2
MaxDel == 1

----------------------------------------------------------------------------
(* Data *)

Ids == 1..NumIds

NoSrc == <<"none">>

Rec(k) == [public_id |-> k, url |-> <<"url", k>>]

RECURSIVE ListsOfLen(_)
ListsOfLen(n) ==
    IF n = 0 THEN {<<>>}
    ELSE {Append(s, Rec(k)) : s \in ListsOfLen(n - 1), k \in Ids}

Distinct(s) == \A i, j \in DOMAIN s : s[i].public_id = s[j].public_id => i = j

ImageLists == {s \in UNION {ListsOfLen(n) : n \in 0..MaxLen} : Distinct(s)}

At(s, i) == s[i + 1]

InRange(s, i) == i >= 0 /\ i < Len(s)

Min(a, b) == IF a < b THEN a ELSE b

Splice(s, i) ==
    IF InRange(s, i)
    THEN [j \in 1..(Len(s) - 1) |-> IF j <= i THEN s[j] ELSE s[j + 1]]
    ELSE s

RECURSIVE SumTo(_, _)
SumTo(f, n) == IF n = 0 THEN 0 ELSE f[n] + SumTo(f, n - 1)

Total(f) == SumTo(f, NumIds)

\* The listener or continuation that ran, its alert() text, the answer given
\* to confirm() if it was called, and whether an exception left the handler
\* (an error event or an unhandled rejection)
Output(op, notice, prompt, uncaught) ==
    [op |-> op, notice |-> notice, prompt |-> prompt, uncaught |-> uncaught]

Quiet(op) == Output(op, "none", "none", FALSE)

UploadFailed == "Failed to upload: "

LoadFailed == "Failed to load images. Refresh page."

DeleteFailed == "Failed to delete. Try again."

NoFile == "Please select a file to upload"

ImageLoadFailed == "Image load failed. Refresh the page."

----------------------------------------------------------------------------
(* The synchronous functions, over a record of what they read and write *)

View == [images |-> images, currentIndex |-> currentIndex,
         detailHidden |-> detailHidden, largeSrc |-> largeSrc,
         thumbs |-> thumbs, prevDisabled |-> prevDisabled,
         nextDisabled |-> nextDisabled, threw |-> FALSE]

SetView(v) ==
    /\ images' = v.images
    /\ currentIndex' = v.currentIndex
    /\ detailHidden' = v.detailHidden
    /\ largeSrc' = v.largeSrc
    /\ thumbs' = v.thumbs
    /\ prevDisabled' = v.prevDisabled
    /\ nextDisabled' = v.nextDisabled

highlightCurrentImage(v) ==
    [v EXCEPT !.thumbs =
        [i \in DOMAIN v.thumbs |->
            [v.thumbs[i] EXCEPT !.selected = (i - 1 = v.currentIndex)]]]

displayThumbnails(v) ==
    highlightCurrentImage(
        [v EXCEPT !.thumbs =
            [i \in 1..Len(v.images) |->
                [url |-> v.images[i].url, selected |-> FALSE]]])

showImageShowFirst(v, index) ==
    IF InRange(v.images, index)
    THEN LET w == highlightCurrentImage(
                      [v EXCEPT !.currentIndex = index,
                                !.largeSrc = At(v.images, index).url,
                                !.detailHidden = FALSE])
         IN [w EXCEPT !.prevDisabled = (index = 0),
                      !.nextDisabled = (index = Len(v.images) - 1)]
    ELSE [v EXCEPT !.currentIndex = index, !.detailHidden = FALSE,
                   !.threw = TRUE]

showImagePrevOnly(v, index) ==
    IF InRange(v.images, index)
    THEN LET w == highlightCurrentImage(
                      [v EXCEPT !.currentIndex = index,
                                !.largeSrc = At(v.images, index).url,
                                !.detailHidden = FALSE])
         IN [w EXCEPT !.prevDisabled = (index = 0),
                      !.nextDisabled = (index = Len(v.images))]
    ELSE [v EXCEPT !.currentIndex = index, !.threw = TRUE]

\* images[index].url throws a TypeError when images[index] is undefined;
\* currentIndex has been assigned by then.
showImage(v, index) ==
    IF InRange(v.images, index)
    THEN LET w == highlightCurrentImage(
                      [v EXCEPT !.currentIndex = index,
                                !.largeSrc = At(v.images, index).url,
                                !.detailHidden = FALSE])
         IN [w EXCEPT !.prevDisabled = (index = 0),
                      !.nextDisabled = (index = Len(v.images) - 1)]
    ELSE [v EXCEPT !.currentIndex = index, !.threw = TRUE]

----------------------------------------------------------------------------
(* fetchImages *)

fetchSyncNoJump(v, newImages) ==
    LET w == displayThumbnails([v EXCEPT !.images = newImages])
    IN IF Len(w.images) # 0 THEN showImage(w, w.currentIndex)
       ELSE [w EXCEPT !.detailHidden = TRUE]

fetchSyncSkipSameLength(v, newImages) ==
    IF Len(newImages) = Len(v.images) THEN v
    ELSE LET j == IF Len(newImages) > Len(v.images)
                  THEN [v EXCEPT !.currentIndex = Len(newImages) - 1]
                  ELSE v
             w == displayThumbnails([j EXCEPT !.images = newImages])
         IN IF Len(w.images) # 0 THEN showImage(w, w.currentIndex)
            ELSE [w EXCEPT !.detailHidden = TRUE]

\* lines 62-74: the body of the try block once newImages is parsed
fetchSync(v, newImages) ==
    LET j == IF Len(newImages) > Len(v.images)
             THEN [v EXCEPT !.currentIndex = Len(newImages) - 1]
             ELSE v
        w == displayThumbnails([j EXCEPT !.images = newImages])
    IN IF Len(w.images) # 0 THEN showImage(w, w.currentIndex)
       ELSE [w EXCEPT !.detailHidden = TRUE]

fetchImagesCallClearing ==
    /\ fetchPending < MaxFetch
    /\ fetchPending' = fetchPending + 1
    /\ out' = Quiet("fetchImages")
    /\ images' = <<>>
    /\ UNCHANGED <<currentIndex, detailHidden, largeSrc, thumbs, prevDisabled,
                   nextDisabled, delPending, uploadPending, uploadDisabled,
                   uploadLabel, fileSelected>>

\* line 57: the request is issued; the handler suspends
fetchImagesCall ==
    /\ fetchPending < MaxFetch
    /\ fetchPending' = fetchPending + 1
    /\ out' = Quiet("fetchImages")
    /\ UNCHANGED <<view, delPending, uploadPending, uploadDisabled,
                   uploadLabel, fileSelected>>

\* line 169
RefreshClick == fetchImagesCall

\* line 207
PollTick == fetchImagesCall

\* lines 58-78 for a response with response.ok and a body that parses; an
\* exception thrown by showImage is caught on line 75
FetchResponseWith(newImages) ==
    /\ fetchPending > 0
    /\ fetchPending' = fetchPending - 1
    /\ \E w \in {fetchSync(View, newImages)} :
          /\ SetView(w)
          /\ out' = IF w.threw
                    THEN Output("fetchImages.then", LoadFailed, "none", FALSE)
                    ELSE Quiet("fetchImages.then")
    /\ UNCHANGED <<delPending, uploadPending, uploadDisabled, uploadLabel,
                   fileSelected>>

FetchResponseOk == \E newImages \in ImageLists : FetchResponseWith(newImages)

\* fetch rejected, !response.ok, or response.json() rejected: lines 75-78
FetchResponseFail ==
    /\ fetchPending > 0
    /\ fetchPending' = fetchPending - 1
    /\ out' = Output("fetchImages.then", LoadFailed, "none", FALSE)
    /\ UNCHANGED <<view, delPending, uploadPending, uploadDisabled,
                   uploadLabel, fileSelected>>

----------------------------------------------------------------------------
(* deleteImage *)

deleteReturnsEarlyNoConfirm(imgs, idx, answer) ==
    Len(imgs) = 0 \/ idx < 0

\* line 33: TRUE when the handler returns before doing anything
deleteReturnsEarly(imgs, idx, answer) ==
    Len(imgs) = 0 \/ idx < 0 \/ ~answer

\* line 33: confirm() is called only when the two tests before it are false
deletePrompts(imgs, idx) == ~(Len(imgs) = 0 \/ idx < 0)

\* lines 40-47: what follows a response with response.ok
deleteCommit(v) ==
    LET s == [v EXCEPT !.images = Splice(v.images, v.currentIndex)]
        w == IF Len(s.images) = 0
             THEN [s EXCEPT !.detailHidden = TRUE]
             ELSE showImage(s, Min(s.currentIndex, Len(s.images) - 1))
    IN displayThumbnails(w)

deleteSettleAlways(v, ok) == deleteCommit(v)

\* lines 37-51: the handler after the await; a rejected request and a
\* response without response.ok both reach the catch block
deleteSettle(v, ok) == IF ok THEN deleteCommit(v) ELSE v

\* lines 33-37, up to the await, when confirm() would answer `answer`
deleteImageCall(answer) ==
    LET asked == IF deletePrompts(images, currentIndex)
                 THEN (IF answer THEN "yes" ELSE "no") ELSE "none"
    IN /\ IF deleteReturnsEarly(images, currentIndex, answer)
          THEN /\ out' = Output("deleteImage", "none", asked, FALSE)
               /\ UNCHANGED delPending
          ELSE IF ~InRange(images, currentIndex)
          THEN \* line 35: images[currentIndex] is undefined, outside the try
               /\ out' = Output("deleteImage", "none", asked, TRUE)
               /\ UNCHANGED delPending
          ELSE LET publicId == At(images, currentIndex).public_id
               IN /\ Total(delPending) < MaxDel
                  /\ delPending' = [delPending EXCEPT ![publicId] = @ + 1]
                  /\ out' = Output("deleteImage", "none", asked, FALSE)
       /\ UNCHANGED <<view, fetchPending, uploadPending, uploadDisabled,
                      uploadLabel, fileSelected>>

\* line 168
DeleteClick == \E answer \in BOOLEAN : deleteImageCall(answer)

\* lines 38-51 when the request for publicId settles
DeleteResponseFor(publicId, ok) ==
    /\ delPending[publicId] > 0
    /\ delPending' = [delPending EXCEPT ![publicId] = @ - 1]
    /\ SetView(deleteSettle(View, ok))
    /\ out' = IF ok THEN Quiet("deleteImage.then")
              ELSE Output("deleteImage.then", DeleteFailed, "none", FALSE)
    /\ UNCHANGED <<fetchPending, uploadPending, uploadDisabled, uploadLabel,
                   fileSelected>>

DeleteResponse ==
    \E publicId \in Ids, ok \in BOOLEAN : DeleteResponseFor(publicId, ok)

----------------------------------------------------------------------------
(* Navigation: lines 172-173, 92, 190-197, 200-203 *)

stepPrevWrap(v) ==
    IF v.currentIndex > 0 THEN showImage(v, v.currentIndex - 1)
    ELSE showImage(v, Len(v.images) - 1)

\* line 172, line 193
stepPrev(v) ==
    IF v.currentIndex > 0 THEN showImage(v, v.currentIndex - 1) ELSE v

\* line 173, line 194
stepNext(v) ==
    IF v.currentIndex < Len(v.images) - 1
    THEN showImage(v, v.currentIndex + 1) ELSE v

\* a synchronous listener ends; an exception it throws is not caught
Navigate(op, w) ==
    /\ SetView(w)
    /\ out' = Output(op, "none", "none", w.threw)
    /\ UNCHANGED <<fetchPending, delPending, uploadPending, uploadDisabled,
                   uploadLabel, fileSelected>>

Ignore(op) ==
    /\ out' = Quiet(op)
    /\ UNCHANGED <<view, fetchPending, delPending, uploadPending,
                   uploadDisabled, uploadLabel, fileSelected>>

PrevClick == Navigate("prevBtn", stepPrev(View))

NextClick == Navigate("nextBtn", stepNext(View))

\* line 92: the listener of the thumbnail at position index
ThumbnailClick ==
    \E index \in 0..(Len(thumbs) - 1) :
       Navigate("thumbnail", showImage(View, index))

KeyDownOnNoGuard(key, ctrlKey) ==
    CASE key = "ArrowLeft" -> Navigate("keydown", stepPrev(View))
      [] key = "ArrowRight" -> Navigate("keydown", stepNext(View))
      [] key = "Delete" ->
           IF ctrlKey THEN \E answer \in BOOLEAN : deleteImageCall(answer)
           ELSE Ignore("keydown")
      [] OTHER -> Ignore("keydown")

\* lines 190-197
KeyDownOn(key, ctrlKey) ==
    IF Len(images) = 0 THEN Ignore("keydown")
    ELSE CASE key = "ArrowLeft" -> Navigate("keydown", stepPrev(View))
           [] key = "ArrowRight" -> Navigate("keydown", stepNext(View))
           [] key = "Delete" ->
                IF ctrlKey THEN \E answer \in BOOLEAN : deleteImageCall(answer)
                ELSE Ignore("keydown")
           [] OTHER -> Ignore("keydown")

KeyDown ==
    \E key \in {"ArrowLeft", "ArrowRight", "Delete", "Enter"},
       ctrlKey \in BOOLEAN : KeyDownOn(key, ctrlKey)

LargeImageErrorResets ==
    /\ largeSrc # NoSrc
    /\ detailHidden' = TRUE
    /\ currentIndex' = 0
    /\ out' = Output("largeImage.error", ImageLoadFailed, "none", FALSE)
    /\ UNCHANGED <<images, largeSrc, thumbs, prevDisabled,
                   nextDisabled, fetchPending, delPending, uploadPending,
                   uploadDisabled, uploadLabel, fileSelected>>

\* lines 200-203: the large image fails to load
LargeImageError ==
    /\ largeSrc # NoSrc
    /\ detailHidden' = TRUE
    /\ out' = Output("largeImage.error", ImageLoadFailed, "none", FALSE)
    /\ UNCHANGED <<images, currentIndex, largeSrc, thumbs, prevDisabled,
                   nextDisabled, fetchPending, delPending, uploadPending,
                   uploadDisabled, uploadLabel, fileSelected>>

----------------------------------------------------------------------------
(* handleUpload *)

uploadRejectsNever(hasFile) == FALSE

\* lines 127-130
uploadRejects(hasFile) == ~hasFile

\* the user picks a file in #file-input
ChooseFile ==
    /\ ~fileSelected
    /\ fileSelected' = TRUE
    /\ out' = Quiet("fileInput")
    /\ UNCHANGED <<view, fetchPending, delPending, uploadPending,
                   uploadDisabled, uploadLabel>>

\* lines 123-141, up to the await.  The submit event of #upload-form comes
\* from its submit control #upload-btn, which the browser does not activate
\* while it is disabled.
UploadSubmit ==
    /\ ~uploadDisabled
    /\ IF uploadRejects(fileSelected)
       THEN /\ out' = Output("handleUpload", NoFile, "none", FALSE)
            /\ UNCHANGED <<view, fetchPending, delPending, uploadPending,
                           uploadDisabled, uploadLabel, fileSelected>>
       ELSE /\ uploadPending' = uploadPending + 1
            /\ uploadDisabled' = TRUE
            /\ uploadLabel' = "Uploading..."
            /\ out' = Quiet("handleUpload")
            /\ UNCHANGED <<view, fetchPending, delPending, fileSelected>>

UploadButton == [disabled |-> uploadDisabled, label |-> uploadLabel,
                 threw |-> FALSE]

\* lines 158-161: uploadBtn is a const of the try block (line 137); it is
\* not in scope in the finally block and no enclosing scope declares it, so
\* evaluating it throws a ReferenceError before either assignment and the
\* promise of the handler is rejected.
uploadFinally(btn) == [btn EXCEPT !.threw = TRUE]

uploadFetchesAlways(ok) == 1

\* lines 146-153: the fetchImages() calls of the handler after the await;
\* the throw of line 148 skips line 153
uploadFetches(ok) == IF ok THEN 1 ELSE 0

\* lines 146-153, 158-161: response.ok; line 153 issues the next fetch
UploadResponseOk ==
    /\ uploadPending > 0
    /\ fetchPending < MaxFetch
    /\ uploadPending' = uploadPending - 1
    /\ fileSelected' = FALSE
    /\ fetchPending' = fetchPending + uploadFetches(TRUE)
    /\ LET b == uploadFinally(UploadButton)
       IN /\ uploadDisabled' = b.disabled
          /\ uploadLabel' = b.label
          /\ out' = Output("handleUpload.then", "none", "none", b.threw)
    /\ UNCHANGED <<view, delPending>>

\* lines 146-149, 155-161: the request is rejected, or the response is not
\* ok and its body carries an error message, carries none, or does not parse
UploadResponseFail ==
    /\ uploadPending > 0
    /\ uploadPending' = uploadPending - 1
    /\ \E message \in {"rejected", "server message", "Upload failed",
                       "unparsable body"} :
          LET b == uploadFinally(UploadButton)
          IN /\ uploadDisabled' = b.disabled
             /\ uploadLabel' = b.label
             /\ out' = Output("handleUpload.then", UploadFailed \o message,
                              "none", b.threw)
    /\ fetchPending' = fetchPending + uploadFetches(FALSE)
    /\ UNCHANGED <<view, delPending, fileSelected>>

----------------------------------------------------------------------------

\* The state when the DOMContentLoaded callback returns: line 206 has issued
\* the first request.  Whether the markup starts with the detail pane hidden
\* is not decided by the script.
Init ==
    /\ images = <<>>
    /\ currentIndex = 0
    /\ detailHidden \in BOOLEAN
    /\ largeSrc = NoSrc
    /\ thumbs = <<>>
    /\ prevDisabled = FALSE
    /\ nextDisabled = FALSE
    /\ fetchPending = 1
    /\ delPending = [k \in Ids |-> 0]
    /\ uploadPending = 0
    /\ uploadDisabled = FALSE
    /\ uploadLabel = "Upload"
    /\ fileSelected = FALSE
    /\ out = Quiet("fetchImages")

Next ==
    \/ RefreshClick
    \/ PollTick
    \/ FetchResponseOk
    \/ FetchResponseFail
    \/ DeleteClick
    \/ DeleteResponse
    \/ PrevClick
    \/ NextClick
    \/ ThumbnailClick
    \/ KeyDown
    \/ LargeImageError
    \/ ChooseFile
    \/ UploadSubmit
    \/ UploadResponseOk
    \/ UploadResponseFail

Spec == Init /\ [][Next]_vars

----------------------------------------------------------------------------
(* Properties.  A property of one handler is an action formula whose      *)
(* premise is the action of that handler, or the value it leaves in out.  *)

Without(s, publicId) == SelectSeq(s, LAMBDA r : r.public_id # publicId)

OnlySelected(t, i) == \A j \in DOMAIN t : t[j].selected <=> (j - 1 = i)

\* C1: whenever images is non-empty and the detail pane is shown,
\* 0 <= currentIndex < images.length.
C1_CurrentIndexInRange ==
    (Len(images) > 0 /\ ~detailHidden) => InRange(images, currentIndex)

C3_RemovesRequestedRecord ==
    [][\A publicId \in Ids :
          DeleteResponseFor(publicId, TRUE) =>
             images' = Without(images, publicId)]_vars

\* C4: once no upload is in flight, the upload control is enabled and its
\* label is restored.
C4_UploadControlRestored ==
    uploadPending = 0 => (~uploadDisabled /\ uploadLabel = "Upload")

\* C5: when a fetch response carrying a list strictly longer than images is
\* processed, images becomes that list, currentIndex its last index, the
\* detail pane shows the last record and its thumbnail is the selected one.
C5_GrowthSelectsLast ==
    [][(FetchResponseWith(images') /\ Len(images') > Len(images)) =>
          /\ currentIndex' = Len(images') - 1
          /\ ~detailHidden'
          /\ largeSrc' = images'[Len(images')].url
          /\ Len(thumbs') = Len(images')
          /\ OnlySelected(thumbs', Len(images') - 1)
          /\ out'.notice = "none"]_vars

C5_Witness ==
    /\ out = Quiet("fetchImages.then")
    /\ Len(images) = 2
    /\ currentIndex = 1
    /\ ~detailHidden
    /\ largeSrc = images[2].url
    /\ OnlySelected(thumbs, 1)

\* C6: whenever a fetch ends with the notice "Failed to load images", images
\* and currentIndex have the values they had before the response was handled.
C6_FetchFailureKeepsState ==
    [][(out'.op = "fetchImages.then" /\ out'.notice = LoadFailed) =>
          (images' = images /\ currentIndex' = currentIndex)]_vars

\* C7: when the delete request is rejected or its response is not ok, images
\* and currentIndex are unchanged and the failure notice is shown.
C7_DeleteFailureKeepsState ==
    [][\A publicId \in Ids :
          DeleteResponseFor(publicId, FALSE) =>
             /\ images' = images
             /\ currentIndex' = currentIndex
             /\ out'.notice = DeleteFailed]_vars

C7_Witness ==
    /\ out.op = "deleteImage.then"
    /\ out.notice = DeleteFailed
    /\ Len(images) = 2
    /\ currentIndex = 1

\* C8: a delete request is issued only after confirm() was answered yes on
\* a non-empty images with currentIndex in range; when images is empty or
\* the user declines, no request is sent and images, currentIndex and the
\* detail pane are unchanged.
C8_DeleteNeedsConfirmation ==
    [][/\ Total(delPending') > Total(delPending) =>
             /\ out'.op = "deleteImage"
             /\ out'.prompt = "yes"
             /\ Len(images) > 0
             /\ InRange(images, currentIndex)
       /\ (out'.op = "deleteImage" /\ (Len(images) = 0 \/ out'.prompt = "no"))
             => UNCHANGED <<delPending, fetchPending, uploadPending, images,
                            currentIndex, detailHidden>>]_vars

C8_Witness ==
    /\ out = Output("deleteImage", "none", "yes", FALSE)
    /\ Total(delPending) = 1
    /\ InRange(images, currentIndex)
    /\ delPending[At(images, currentIndex).public_id] = 1

\* C9: a submit with no file selected issues no request, shows the
\* validation notice and leaves images, currentIndex and the upload control
\* as they were.
C9_UploadWithoutFile ==
    [][(~fileSelected /\ UploadSubmit) =>
          /\ out'.notice = NoFile
          /\ UNCHANGED <<uploadPending, fetchPending, delPending, images,
                         currentIndex, uploadDisabled, uploadLabel>>]_vars

C9_Witness ==
    /\ out = Output("handleUpload", NoFile, "none", FALSE)
    /\ ~fileSelected
    /\ uploadPending = 0
    /\ ~uploadDisabled

\* a step of the prev button or of the ArrowLeft key
PrevStep ==
    \/ out'.op = "prevBtn" /\ PrevClick
    \/ out'.op = "keydown" /\ \E ctrlKey \in BOOLEAN :
                                  KeyDownOn("ArrowLeft", ctrlKey)

\* a step of the next button or of the ArrowRight key
NextStep ==
    \/ out'.op = "nextBtn" /\ NextClick
    \/ out'.op = "keydown" /\ \E ctrlKey \in BOOLEAN :
                                  KeyDownOn("ArrowRight", ctrlKey)

\* selectImage(index) of the specification, section 4.1
SelectImageEffect(index) ==
    /\ images' = images
    /\ currentIndex' = index
    /\ largeSrc' = At(images, index).url
    /\ ~detailHidden'
    /\ prevDisabled' = (index = 0)
    /\ nextDisabled' = (index = Len(images) - 1)
    /\ Len(thumbs') = Len(thumbs)
    /\ OnlySelected(thumbs', index)

\* C10: prev at currentIndex 0 and next at currentIndex = images.length-1,
\* by button or by arrow key, change neither currentIndex nor the large
\* image; at any other index in range they do what selectImage does for
\* currentIndex-1 and currentIndex+1.
C10_StepAtBoundary ==
    [][/\ PrevStep =>
             /\ currentIndex = 0 =>
                   UNCHANGED <<images, currentIndex, largeSrc, detailHidden>>
             /\ (InRange(images, currentIndex) /\ currentIndex > 0) =>
                   SelectImageEffect(currentIndex - 1)
       /\ NextStep =>
             /\ currentIndex = Len(images) - 1 =>
                   UNCHANGED <<images, currentIndex, largeSrc, detailHidden>>
             /\ (InRange(images, currentIndex)
                   /\ currentIndex < Len(images) - 1) =>
                   SelectImageEffect(currentIndex + 1)]_vars

\* a prev click that did nothing: showImage would have shown the pane
C10_Witness ==
    /\ out = Quiet("prevBtn")
    /\ Len(images) = 2
    /\ currentIndex = 0
    /\ detailHidden

\* the thumbnails are the records of images, in order
ThumbsMatch(t, imgs) ==
    /\ Len(t) = Len(imgs)
    /\ \A j \in DOMAIN t : t[j].url = imgs[j].url

\* C11: between two handlers, when images is non-empty, the thumbnails
\* correspond 1:1 to images and exactly one of them carries the selected
\* marker, the one at position currentIndex.
C11_OneSelectedThumbnail ==
    Len(images) > 0 =>
       /\ ThumbsMatch(thumbs, images)
       /\ InRange(thumbs, currentIndex)
       /\ OnlySelected(thumbs, currentIndex)

\* C12: after a thumbnail is selected, and after a fetch or a delete that
\* succeeded and left images non-empty, the previous control is disabled iff
\* currentIndex = 0 and the next control is disabled iff
\* currentIndex = images.length-1, for images as the handler left it.
C12_NavigationControls ==
    (/\ Len(images) > 0
     /\ out \in {Quiet("thumbnail"), Quiet("fetchImages.then"),
                 Quiet("deleteImage.then")}) =>
       /\ prevDisabled <=> (currentIndex = 0)
       /\ nextDisabled <=> (currentIndex = Len(images) - 1)

\* a delete has left one record: both controls are disabled
C12_Witness ==
    /\ out = Quiet("deleteImage.then")
    /\ Len(images) = 1
    /\ currentIndex = 0
    /\ prevDisabled
    /\ nextDisabled

\* C13: no handler ends with an uncaught exception or an unhandled promise
\* rejection.
C13_NoUncaughtFailure == ~out.uncaught

\* C14: when the upload response is ok the file selection is cleared and
\* one fetch request is issued; when the upload fails the handler issues no
\* fetch and images and currentIndex are unchanged.
C14_UploadThenFetch ==
    [][/\ UploadResponseOk =>
             /\ ~fileSelected'
             /\ fetchPending' = fetchPending + 1
       /\ UploadResponseFail =>
             /\ fetchPending' = fetchPending
             /\ UNCHANGED <<images, currentIndex>>]_vars

\* the upload has succeeded: the selection is cleared and the fetch it
\* issued is in flight
C14_Witness ==
    /\ out = Output("handleUpload.then", "none", "none", TRUE)
    /\ ~fileSelected
    /\ uploadPending = 0
    /\ fetchPending > 0

\* a request of deleteImage, fetchImages or handleUpload is in flight before
\* and after the step, which is not the continuation of any of them
InFlightElsewhere ==
    /\ Total(delPending) + fetchPending + uploadPending > 0
    /\ UNCHANGED <<delPending, fetchPending, uploadPending>>

\* C15, as stated: between the start of deleteImage, fetchImages or
\* handleUpload and its end, no other handler changes images or currentIndex.
C15_NoInterleaving ==
    [][InFlightElsewhere => UNCHANGED <<images, currentIndex>>]_vars

IssuesRequest ==
    \/ fetchPending' > fetchPending
    \/ Total(delPending') > Total(delPending)
    \/ uploadPending' > uploadPending

HandlesListResponse ==
    \/ fetchPending' < fetchPending
    \/ Total(delPending') < Total(delPending)

\* C15, amended: a handler is interrupted only at its network call.  The
\* step that issues a request changes neither images nor currentIndex;
\* images changes only in the step that handles a fetch or delete response,
\* and currentIndex only in such a step or in a navigation listener.
C15_MutationOnlyAfterResponse ==
    [][/\ IssuesRequest => UNCHANGED <<images, currentIndex>>
       /\ images' # images => HandlesListResponse
       /\ currentIndex' # currentIndex =>
             \/ HandlesListResponse
             \/ out'.op \in {"prevBtn", "nextBtn", "thumbnail", "keydown"}]_vars

\* a delete is in flight and the prev button has moved the selection away
\* from the record whose deletion was requested
C15_Witness ==
    /\ out = Quiet("prevBtn")
    /\ Total(delPending) = 1
    /\ InRange(images, currentIndex)
    /\ delPending[At(images, currentIndex).public_id] = 0
    /\ ~detailHidden

\* C16: whenever fetch requests are in flight, two of them in particular,
\* the response handled next, whichever request it answers, leaves in
\* images the list it carried: the response handled last decides images.
C16_LastWriteWins ==
    fetchPending > 0 =>
       \A newImages \in ImageLists :
          fetchSync(View, newImages).images = newImages

\* one of two responses has been handled and has replaced a non-empty list
\* by a shorter one; the other request is still in flight
C16_Witness ==
    /\ out.op = "fetchImages.then"
    /\ fetchPending = 1
    /\ Len(images) = 1
    /\ largeSrc # NoSrc
    /\ largeSrc # images[1].url

\* C17: when a fetch that completed or a delete that succeeded leaves images
\* empty the detail pane is hidden, and a hidden pane stays hidden in every
\* step that leaves images empty.
C17_EmptyStaysHidden ==
    [][/\ (/\ Len(images') = 0
           /\ HandlesListResponse
           /\ out' \in {Quiet("fetchImages.then"), Quiet("deleteImage.then")})
             => detailHidden'
       /\ (Len(images) = 0 /\ detailHidden /\ Len(images') = 0)
             => detailHidden']_vars

\* the prev button was clicked on an empty list with a stale currentIndex:
\* showImage threw before it could show the pane
C17_Witness ==
    /\ Len(images) = 0
    /\ detailHidden
    /\ out = Output("prevBtn", "none", "none", TRUE)

\* C18: while images is empty a keyboard event changes nothing of the view,
\* shows no confirmation prompt and issues no request; when images is not
\* empty, the Delete key without Ctrl starts no deletion.
C18_KeyboardIgnored ==
    [][/\ (Len(images) = 0 /\ KeyDown)
             => /\ UNCHANGED <<view, fetchPending, delPending, uploadPending>>
                /\ out'.prompt = "none"
       /\ (Len(images) > 0 /\ out'.op = "keydown"
                           /\ KeyDownOn("Delete", FALSE))
             => /\ UNCHANGED <<images, delPending>>
                /\ out'.prompt = "none"]_vars

\* a key was pressed on an empty list whose currentIndex is stale
C18_Witness ==
    /\ out = Quiet("keydown")
    /\ Len(images) = 0
    /\ currentIndex > 0

\* C19: the handler of the large image's error event hides the detail pane
\* and shows a notice, and leaves images and currentIndex as they were.
C19_LoadErrorEffect ==
    [][out'.op = "largeImage.error"
          => /\ detailHidden'
             /\ out'.notice = ImageLoadFailed
             /\ UNCHANGED <<images, currentIndex>>]_vars

\* the image at a position other than the first failed to load
C19_Witness ==
    /\ out.op = "largeImage.error"
    /\ out.notice = ImageLoadFailed
    /\ detailHidden
    /\ InRange(images, currentIndex)
    /\ currentIndex > 0

====
